---- MODULE Spec2Model ----
(***************************************************************************)
(* Model of Main_sort.py: main() runs get_senders_from_eml over the source *)
(* directory and then copy_emails_to_sender_folders over the senders it     *)
(* found.                                                                   *)
(*                                                                          *)
(* Strings are sequences of one-character strings.  A message file is the   *)
(* record of what BytesParser reads from its bytes: the From, Subject and   *)
(* Date header values (None when the header is absent) and a body.  The     *)
(* Date header value is the tuple <<year, month, day, hour, minute, second>> *)
(* of the fields the RFC 5322 text spells, or a character sequence that is  *)
(* no date.  Every os.listdir call may list the directory in any order, and *)
(* a Python set is iterated in any order.                                   *)
(***************************************************************************)
EXTENDS Integers, Sequences, FiniteSets, TLC

VARIABLES
    src,        \* the source directory "email": entry name -> [kind, content]
    src0,       \* the source directory as main() found it
    dest_dirs,  \* the sender folders under the destination root "sort"
    dest_files, \* <<folder, file name>> -> content, the files in those folders
    dest0_dirs, \* the destination folders before the first run
    dest0,      \* the destination files before the first run
    after1,     \* the destination [dirs, files] as the previous run left them
    pc,         \* "discover", "sort", "done" or "failed" (an uncaught exception)
    senders,    \* the set get_senders_from_eml builds and returns
    left,       \* the senders copy_emails_to_sender_folders has not yet iterated
    sender,     \* the sender of the current iteration of the outer loop
    sender_name, \* the folder name made from it
    todo,       \* the entries of the current os.listdir loop not yet visited
    opened,     \* the entries open() was called on in this run
    copies,     \* the shutil.copy calls of this run, in order: [filename, path]
    stdout,     \* the lines printed in this run, in order
    run         \* which run of the program this is

vars == <<src, src0, dest_dirs, dest_files, dest0_dirs, dest0, after1, pc, senders,
          left, sender, sender_name, todo, opened, copies, stdout, run>>

--------------------------------------------------------------------------
(* Bounds of the model *)

\* at most this many .eml entries in the source directory
MaxEml == 3
\* at most this many .eml entries when the program is run twice
MaxEmlRerun == 2
\* header strings of the single-message directories have at most this length
MaxLen == 2
\* the program is run at most this many times in succession
MaxRuns == 2

--------------------------------------------------------------------------
(* Strings and header values *)

\* Python's None: the value of msg.get(name) when the header is absent
None == <<"None">>

Digits == <<"0", "1", "2", "3", "4", "5", "6", "7", "8", "9">>

\* str.endswith
EndsWith(s, suffix) ==
    /\ Len(s) >= Len(suffix)
    /\ SubSeq(s, Len(s) - Len(suffix) + 1, Len(s)) = suffix

DotEml == <<".", "e", "m", "l">>

\* the characters of invalid_chars = r'<>:"/\\|?*'
invalid_chars == {"<", ">", ":", "\"", "/", "\\", "|", "?", "*"}

\* re.sub(f"[{re.escape(invalid_chars)}]", "_", name) with a character class that misses '|'
sanitize_folder_name_nobar(name) ==
    [i \in 1..Len(name) |-> IF name[i] \in invalid_chars \ {"|"} THEN "_" ELSE name[i]]

\* re.sub(f"[{re.escape(invalid_chars)}]", "_", name)
sanitize_folder_name(name) ==
    [i \in 1..Len(name) |-> IF name[i] \in invalid_chars THEN "_" ELSE name[i]]

\* re.sub(f"[{re.escape(r'<>:\"/\\|?*')}]|\n", "_", name): the nine characters of
\* the class, or a newline.  (The backslashes inside the f-string's braces need
\* Python 3.12; an older interpreter rejects the file and nothing runs.)
sanitize_filename(name) ==
    [i \in 1..Len(name) |->
        IF name[i] \in {"<", ">", ":", "\"", "/", "\\", "|", "?", "*"} \/ name[i] = "\n"
        THEN "_" ELSE name[i]]

\* msg.get(name, default) on the parsed message
Get(value, default) == IF value = None THEN default ELSE value

\* bool(sender) of "if sender:"
Truthy(value) == value # None /\ value # <<>>

NoSubject == <<"N", "o", " ", "S", "u", "b", "j", "e", "c", "t">>

UnknownDate == <<"U", "n", "k", "n", "o", "w", "n", "D", "a", "t", "e">>

DaysIn(y, m) ==
    IF m \in {4, 6, 9, 11} THEN 30
    ELSE IF m = 2 THEN (IF y % 4 = 0 /\ (y % 100 # 0 \/ y % 400 = 0) THEN 29 ELSE 28)
    ELSE 31

\* whether email.utils.parsedate_to_datetime(date_received) returns a datetime
\* (it raises on None, on text that is no date and on fields datetime() rejects)
Parses(d) ==
    /\ d # None
    /\ Len(d) = 6
    /\ \A i \in 1..6 : d[i] \in Int
    /\ d[1] \in 1..9999 /\ d[2] \in 1..12 /\ d[3] \in 1..DaysIn(d[1], d[2])
    /\ d[4] \in 0..23 /\ d[5] \in 0..59 /\ d[6] \in 0..59

Pad2(n) == <<Digits[(n \div 10) + 1], Digits[(n % 10) + 1]>>

Pad4(n) == Pad2(n \div 100) \o Pad2(n % 100)

\* date_received.strftime("%Y-%m-%d_%H-%M-%S")
strftime(d) ==
    Pad4(d[1]) \o <<"-">> \o Pad2(d[2]) \o <<"-">> \o Pad2(d[3]) \o <<"_">>
        \o Pad2(d[4]) \o <<"-">> \o Pad2(d[5]) \o <<"-">> \o Pad2(d[6])

\* a try/except that catches the TypeError of a missing header only
DateStrTypeError(date_received) ==
    IF date_received # None /\ Len(date_received) = 6
    THEN strftime(date_received) ELSE UnknownDate

\* the try/except around the date: a date that does not parse is caught
DateStr(date_received) ==
    IF Parses(date_received) THEN strftime(date_received) ELSE UnknownDate

\* filename_to_copy = f"{sanitized_subject}_{date_str}.eml"
FilenameToCopy(msg) ==
    sanitize_filename(Get(msg.subject, NoSubject)) \o <<"_">> \o DateStr(msg.date) \o DotEml

\* a print() whose source and destination names are exchanged
ProgressLineSwapped(filename, folder, filename_to_copy) ==
    <<"Copied email ", filename_to_copy, " to folder ", folder, " with name ",
      filename>>

\* the line print() writes after a copy
ProgressLine(filename, folder, filename_to_copy) ==
    <<"Copied email ", filename, " to folder ", folder, " with name ",
      filename_to_copy>>

--------------------------------------------------------------------------
(* The directories main() may find *)

\* a message file's parsed bytes
Msg(from, subject, date, body) ==
    [from |-> from, subject |-> subject, date |-> date, body |-> body]

File(msg) == [kind |-> "file", content |-> msg]

\* a subdirectory of the source directory (it holds no bytes)
Dir == [kind |-> "dir", content |-> Msg(None, None, None, 0)]

Absent == [kind |-> "absent", content |-> Msg(None, None, None, 0)]

EmlName(i) == <<Digits[i + 1]>> \o DotEml

TxtName == <<"n", ".", "t", "x", "t">>

\* two senders that differ only in a character the sanitizer replaces
SenderA == <<"a", "?">>
SenderB == <<"a", "*">>

\* two subjects that differ only in a character the sanitizer replaces
SubjectA == <<"s", "?">>
SubjectB == <<"s", "*">>

Date1 == <<2024, 1, 1, 10, 0, 0>>
Date2 == <<2024, 1, 1, 10, 0, 1>>

\* From: "Eve / Corp" <eve@x.com>, as written in the file
EveRaw ==
    <<"\"", "E", "v", "e", " ", "/", " ", "C", "o", "r", "p", "\"", " ",
      "<", "e", "v", "e", "@", "x", ".", "c", "o", "m", ">">>

\* the same header as the default policy's address parser returns it
EveParsed ==
    <<"E", "v", "e", " ", "/", " ", "C", "o", "r", "p", " ",
      "<", "e", "v", "e", "@", "x", ".", "c", "o", "m", ">">>

Bob == <<"b", "o", "b", "@", "x", ".", "c", "o", "m">>

Hi == <<"H", "i">>

Alphabet == invalid_chars \cup {"\n", "_", "a", " "}

\* every string over Alphabet of at most MaxLen characters
Strings == UNION {[1..n -> Alphabet] : n \in 0..MaxLen}

SmallSubjects == {SubjectA, SubjectB}
SmallDates == {None, Date1}

\* the directory whose i-th .eml entry is e[i], plus the entries of extra
MkSrc(e, extra) ==
    LET present == {i \in DOMAIN e : e[i] # Absent}
        emls == [n \in {EmlName(i) : i \in present} |->
                    e[CHOOSE i \in present : EmlName(i) = n]]
    IN  extra @@ emls

\* what the i-th .eml entry may be.  File i's bytes differ from every other
\* file's: its body is i
SmallEntries(i) ==
    {File(Msg(f, s, d, i)) : f \in {SenderA, SenderB}, s \in SmallSubjects,
                             d \in SmallDates}
        \cup {File(Msg(<<>>, SubjectA, None, i))}
        \cup {Absent}

\* the choices of up to k .eml entries, 1.eml to k.eml: the entries that are
\* there are numbered from 1
RECURSIVE SmallDirs(_)
SmallDirs(k) ==
    IF k = 0 THEN {<<>>}
    ELSE {Append(e, x) : e \in {d \in SmallDirs(k - 1) : k = 1 \/ d[k - 1] # Absent},
                         x \in SmallEntries(k)}
             \cup {Append(e, Absent) : e \in {d \in SmallDirs(k - 1) :
                                                 k > 1 /\ d[k - 1] = Absent}}

\* up to MaxEml messages, an empty destination root, one run
InitCore ==
    /\ \E e \in SmallDirs(MaxEml) : src = MkSrc(e, <<>>)
    /\ dest_dirs = {}
    /\ dest_files = <<>>

OldMsg == Msg(SenderB, Hi, None, 9)

FolderA == <<"a", "_">>

\* what a destination root that is not empty may hold: a folder of an earlier
\* sort with a file no message maps to and a file a message maps to, and a folder
\* no sender maps to
PreFiles ==
    {<<FolderA, <<"o", "l", "d">>>>,
     <<FolderA, <<"s", "_", "_"  >> \o UnknownDate \o DotEml>>}

EnvEntries(i) ==
    {File(Msg(SenderA, SubjectA, None, i)), File(Msg(None, SubjectA, None, i)), Dir, Absent}

\* entries that are no message files, and a destination root that is not empty
InitEnv ==
    /\ \E e \in [1..2 -> UNION {EnvEntries(i) : i \in 1..2}] :
       \E extra \in {<<>>, TxtName :> File(Msg(SenderB, SubjectA, None, 8)),
                     TxtName :> Dir} :
          /\ \A i \in 1..2 : e[i] \in EnvEntries(i)
          /\ src = MkSrc(e, extra)
    /\ \E fs \in SUBSET PreFiles :
       \E ds \in SUBSET {FolderA, <<"z">>} :
          /\ fs # {} => FolderA \in ds
          /\ dest_dirs = ds
          /\ dest_files = [p \in fs |-> OldMsg]

RichDates == {None, <<"x">>, <<2024, 2, 30, 10, 0, 0>>, Date1, Date2,
              <<1999, 12, 31, 23, 59, 59>>}

\* one message whose sender or subject is any short string, or one of the
\* documented examples
InitNames ==
    /\ \/ \E f \in {EveRaw, EveParsed, Bob} : \E s \in Strings :
             src = MkSrc(<<File(Msg(f, s, None, 1))>>, <<>>)
       \/ \E f \in Strings :
             src = MkSrc(<<File(Msg(f, SubjectA, None, 1))>>, <<>>)
       \/ \E f \in {None, SenderA, Bob} : \E s \in {None, SubjectA, Hi} :
          \E d \in RichDates :
             src = MkSrc(<<File(Msg(f, s, d, 1))>>, <<>>)
    /\ dest_dirs = {}
    /\ dest_files = <<>>

\* up to MaxEmlRerun messages, and the program run twice
InitRerun ==
    /\ \E e \in SmallDirs(MaxEmlRerun) : src = MkSrc(e, <<>>)
    /\ \E fs \in {{}, PreFiles} :
          /\ dest_dirs = IF fs = {} THEN {} ELSE {FolderA}
          /\ dest_files = [p \in fs |-> OldMsg]

InitRest ==
    /\ src0 = src
    /\ dest0_dirs = dest_dirs
    /\ dest0 = dest_files
    /\ after1 = [dirs |-> dest_dirs, files |-> dest_files]
    /\ pc = "discover"
    /\ senders = {}
    /\ left = {}
    /\ sender = None
    /\ sender_name = None
    /\ todo = DOMAIN src
    /\ opened = {}
    /\ copies = <<>>
    /\ stdout = <<>>
    /\ run = 1

--------------------------------------------------------------------------
(* get_senders_from_eml *)

\* "if sender: senders.add(sender)"
AddSender(set, from) == IF Truthy(from) THEN set \cup {from} ELSE set

\* one iteration of "for filename in os.listdir(folder_path)"
DiscoverVisit ==
    /\ pc = "discover"
    /\ \E filename \in todo :
          IF ~EndsWith(filename, DotEml)
          THEN /\ todo' = todo \ {filename}
               /\ UNCHANGED <<pc, senders, opened>>
          ELSE /\ opened' = opened \cup {filename}
               /\ IF src[filename].kind # "file"
                  THEN \* open() raises IsADirectoryError and nothing catches it
                       /\ pc' = "failed"
                       /\ UNCHANGED <<senders, todo>>
                  ELSE /\ senders' = AddSender(senders, src[filename].content.from)
                       /\ todo' = todo \ {filename}
                       /\ pc' = pc
    /\ UNCHANGED <<src, src0, dest_dirs, dest_files, dest0_dirs, dest0, after1, left,
                   sender, sender_name, copies, stdout, run>>

\* "return senders", and main() passes the set on
DiscoverReturn ==
    /\ pc = "discover"
    /\ todo = {}
    /\ pc' = "sort"
    /\ left' = senders
    /\ UNCHANGED <<src, src0, dest_dirs, dest_files, dest0_dirs, dest0, after1, senders,
                   sender, sender_name, todo, opened, copies, stdout, run>>

--------------------------------------------------------------------------
(* copy_emails_to_sender_folders *)

\* "if not os.path.exists(sender_folder): os.makedirs(sender_folder)"
MakeDirs(dirs, folder) == IF folder \in dirs THEN dirs ELSE dirs \cup {folder}

\* "if sender_in_msg == sender" that compares the folder names instead
MatchesFolder(sender_in_msg, s) ==
    sanitize_folder_name(sender_in_msg) = sanitize_folder_name(s)

\* "if sender_in_msg == sender"
Matches(sender_in_msg, s) == sender_in_msg = s

\* a copy that keeps a file already at the destination path
CopyKeep(files, path, content) ==
    IF path \in DOMAIN files THEN files ELSE (path :> content) @@ files

\* a copy that picks a fresh name when the destination path is taken
CopyFresh(files, path, content) ==
    IF path \in DOMAIN files
    THEN (<<path[1], path[2] \o <<"~">>>> :> content) @@ files
    ELSE (path :> content) @@ files

\* a copy that writes the parsed message back instead of the file's bytes
CopySerialized(files, path, content) ==
    (path :> [content EXCEPT !.body = 0]) @@ files

\* shutil.copy(file_path, destination_path): the bytes of the source file are
\* written at the path, over any file there
CopyFile(files, path, content) == (path :> content) @@ files

\* the next "for sender in senders": the folder is made and the directory listed
NextSender ==
    /\ pc = "sort"
    /\ todo = {}
    /\ \E s \in left :
          /\ sender' = s
          /\ left' = left \ {s}
          /\ sender_name' = sanitize_folder_name(s)
          /\ dest_dirs' = MakeDirs(dest_dirs, sanitize_folder_name(s))
    /\ todo' = DOMAIN src
    /\ UNCHANGED <<src, src0, dest_files, dest0_dirs, dest0, after1, pc, senders,
                   opened, copies, stdout, run>>

\* one iteration of the inner "for filename in os.listdir(folder_path)"
CopyVisit ==
    /\ pc = "sort"
    /\ \E filename \in todo :
          IF ~EndsWith(filename, DotEml)
          THEN /\ todo' = todo \ {filename}
               /\ UNCHANGED <<pc, dest_files, opened, copies, stdout>>
          ELSE /\ opened' = opened \cup {filename}
               /\ IF src[filename].kind # "file"
                  THEN /\ pc' = "failed"
                       /\ UNCHANGED <<dest_files, todo, copies, stdout>>
                  ELSE LET msg == src[filename].content
                           filename_to_copy == FilenameToCopy(msg)
                           destination_path == <<sender_name, filename_to_copy>>
                       IN  /\ IF Matches(msg.from, sender)
                              THEN /\ dest_files' =
                                        CopyFile(dest_files, destination_path, msg)
                                   /\ copies' = Append(copies,
                                        [filename |-> filename,
                                         path |-> destination_path])
                                   /\ stdout' = Append(stdout,
                                        ProgressLine(filename, sender_name,
                                                     filename_to_copy))
                              ELSE UNCHANGED <<dest_files, copies, stdout>>
                           /\ todo' = todo \ {filename}
                           /\ pc' = pc
    /\ UNCHANGED <<src, src0, dest_dirs, dest0_dirs, dest0, after1, senders, left,
                   sender, sender_name, run>>

\* both loops are exhausted: main() returns
Finish ==
    /\ pc = "sort"
    /\ todo = {}
    /\ left = {}
    /\ pc' = "done"
    /\ UNCHANGED <<src, src0, dest_dirs, dest_files, dest0_dirs, dest0, after1, senders,
                   left, sender, sender_name, todo, opened, copies, stdout, run>>

\* the program is started again on the directories as they are
Rerun ==
    /\ pc = "done"
    /\ run < MaxRuns
    /\ run' = run + 1
    /\ after1' = [dirs |-> dest_dirs, files |-> dest_files]
    /\ pc' = "discover"
    /\ senders' = {}
    /\ left' = {}
    /\ sender' = None
    /\ sender_name' = None
    /\ todo' = DOMAIN src
    /\ opened' = {}
    /\ copies' = <<>>
    /\ stdout' = <<>>
    /\ UNCHANGED <<src, src0, dest_dirs, dest_files, dest0_dirs, dest0>>

\* one run of main()
Init == (InitCore \/ InitEnv \/ InitNames) /\ InitRest

Next ==
    \/ DiscoverVisit
    \/ DiscoverReturn
    \/ NextSender
    \/ CopyVisit
    \/ Finish

Spec == Init /\ [][Next]_vars

\* main() run again on what the run before left
InitTwice == InitRerun /\ InitRest

NextRerun ==
    \/ DiscoverVisit
    \/ DiscoverReturn
    \/ NextSender
    \/ CopyVisit
    \/ Finish
    \/ Rerun

SpecRerun == InitTwice /\ [][NextRerun]_vars

--------------------------------------------------------------------------
(* What the specification says of a run, stated without the program's operators *)

\* the message files of the source directory: regular files named *.eml
Messages == {n \in DOMAIN src : EndsWith(n, DotEml) /\ src[n].kind = "file"}

\* the characters the specification lists: < > : " / \ | ? *
SpecChars == {"<", ">", ":", "\"", "/", "\\", "|", "?", "*"}

\* s with every character of chars replaced by "_" and every other one kept
Replaced(s, chars) == [i \in 1..Len(s) |-> IF s[i] \in chars THEN "_" ELSE s[i]]

ExpectedDate(d) ==
    CASE d = Date1 -> <<"2", "0", "2", "4", "-", "0", "1", "-", "0", "1", "_", "1", "0", "-", "0", "0", "-", "0", "0">>
      [] d = Date2 -> <<"2", "0", "2", "4", "-", "0", "1", "-", "0", "1", "_", "1", "0", "-", "0", "0", "-", "0", "1">>
      [] d = <<1999, 12, 31, 23, 59, 59>> -> <<"1", "9", "9", "9", "-", "1", "2", "-", "3", "1", "_", "2", "3", "-", "5", "9", "-", "5", "9">>
      [] OTHER -> <<"U", "n", "k", "n", "o", "w", "n", "D", "a", "t", "e">>

ExpectedFilename(msg) ==
    (IF msg.subject = None THEN <<"N", "o", " ", "S", "u", "b", "j", "e", "c", "t">>
     ELSE Replaced(msg.subject, SpecChars \cup {"\n"}))
        \o <<"_">> \o ExpectedDate(msg.date) \o <<".", "e", "m", "l">>

ExpectedPath(msg) == <<Replaced(msg.from, SpecChars), ExpectedFilename(msg)>>

\* the copies made of source file n, and the copies made to path p
CopiesOf(n) == {i \in 1..Len(copies) : copies[i].filename = n}
CopiesTo(p) == {i \in 1..Len(copies) : copies[i].path = p}

Last(S) == CHOOSE i \in S : \A j \in S : j <= i

\* the messages with a sender whose copy goes to path p
MappedTo(p) ==
    {n \in Messages : src[n].content.from \notin {None, <<>>}
                      /\ ExpectedPath(src[n].content) = p}

EmptyDestination == dest0_dirs = {} /\ DOMAIN dest0 = {}

--------------------------------------------------------------------------
\* C1: after a completed run from an empty destination root, every file in the
\* folder of a discovered sender S has a From header equal to S.
C1_PreImage ==
    (pc = "done" /\ EmptyDestination) =>
        \A s \in senders : \A p \in DOMAIN dest_files :
            p[1] = Replaced(s, SpecChars) => dest_files[p].from = s

--------------------------------------------------------------------------
\* exactly one copy is made of n, into the folder of its sender, and the copy is
\* at its path at the end unless a later copy went to the same path
CopiedOnce(n) ==
    /\ Cardinality(CopiesOf(n)) = 1
    /\ \A i \in CopiesOf(n) :
          /\ copies[i].path[1] = Replaced(src[n].content.from, SpecChars)
          /\ copies[i].path \in DOMAIN dest_files
          /\ \/ dest_files[copies[i].path] = src[n].content
             \/ \E j \in CopiesTo(copies[i].path) : j > i

\* C2 as claimed: a completed run makes exactly one copy of every message file
\* that has a From header, and only a later copy to the same path removes it.
C2_EveryFromHeader ==
    pc = "done" =>
        \A n \in Messages : src[n].content.from # None => CopiedOnce(n)

\* C2, amended: a completed run makes exactly one copy of every message file
\* whose From header is present and not empty, into the folder of its sender,
\* and only a later copy to the same path removes it.
C2_Complete ==
    pc = "done" =>
        \A n \in Messages : src[n].content.from \notin {None, <<>>} => CopiedOnce(n)

\* a run that overwrote the copy of one message and skipped one with an empty From
C2_Witness ==
    /\ pc = "done"
    /\ \E n \in Messages : src[n].content.from = <<>>
    /\ \E n \in Messages : \E i \in CopiesOf(n) :
          dest_files[copies[i].path] # src[n].content

--------------------------------------------------------------------------
\* C3: discovery opens only regular files named *.eml, no entry makes it fail,
\* and it returns exactly the non-empty From values of those files.
C3_Discovery ==
    /\ opened \subseteq Messages
    /\ pc # "failed"
    /\ pc \in {"sort", "done"} =>
          senders = {src[n].content.from : n \in
                        {m \in Messages : src[m].content.from \notin {None, <<>>}}}

--------------------------------------------------------------------------
\* C4 as claimed: a second run on the unchanged source ends with the destination
\* the run before it left: the same paths and the same content at each.
C4_SameContents ==
    (pc = "done" /\ run > 1) =>
        dest_dirs = after1.dirs /\ dest_files = after1.files

\* C4, amended: a second run on the unchanged source ends with the folders and
\* the paths the run before it left, and with the same content at every path that
\* at most one message is copied to; a path several messages are copied to holds
\* the content of one of them, which the order of that run picks.
C4_Rerun ==
    (pc = "done" /\ run > 1) =>
        /\ dest_dirs = after1.dirs
        /\ DOMAIN dest_files = DOMAIN after1.files
        /\ \A p \in DOMAIN dest_files :
              /\ Cardinality(MappedTo(p)) <= 1 => dest_files[p] = after1.files[p]
              /\ MappedTo(p) # {} =>
                    dest_files[p] \in {src[n].content : n \in MappedTo(p)}

\* a second run that copied a message nothing collides with over its earlier copy
C4_Witness ==
    /\ pc = "done"
    /\ run > 1
    /\ \E p \in DOMAIN dest_files :
          /\ Cardinality(MappedTo(p)) = 1
          /\ CopiesTo(p) # {}
          /\ p \in DOMAIN dest0
          /\ dest_files[p] # dest0[p]

--------------------------------------------------------------------------
\* C5: after a run from an empty destination root there are as many sender
\* folders as senders, and a folder that existed keeps everything it held.
C5_OneFolderPerSender ==
    pc = "done" =>
        /\ EmptyDestination => Cardinality(dest_dirs) = Cardinality(senders)
        /\ dest0_dirs \subseteq dest_dirs
        /\ DOMAIN dest0 \subseteq DOMAIN dest_files

--------------------------------------------------------------------------
\* the number of *.eml entries of the source directory
Total == Cardinality({n \in DOMAIN src : EndsWith(n, DotEml)})

\* C6 as claimed: every copy prints one line "[<n>/<total>] Copied email <source>
\* to folder <folder> with name <dest>", total counting the *.eml entries.
C6_CountedLine ==
    /\ Len(stdout) = Len(copies)
    /\ \A i \in 1..Len(copies) :
          /\ Len(stdout[i]) = 10
          /\ stdout[i][1] = "["
          /\ stdout[i][2] \in 1..Total
          /\ stdout[i][3] = "/"
          /\ stdout[i][4] = Total
          /\ stdout[i][5] = "] Copied email "
          /\ stdout[i][6] = copies[i].filename

\* C6, amended: every copy prints exactly one line "Copied email <source> to
\* folder <folder> with name <dest>"; the line carries no [<n>/<total>] count.
C6_Progress ==
    /\ Len(stdout) = Len(copies)
    /\ \A i \in 1..Len(copies) :
          stdout[i] = <<"Copied email ", copies[i].filename, " to folder ",
                        copies[i].path[1], " with name ", copies[i].path[2]>>

\* a completed run that copied two files beside an entry that is no *.eml file
C6_Witness ==
    /\ pc = "done"
    /\ Len(copies) >= 2
    /\ \E n \in DOMAIN src : ~EndsWith(n, DotEml)

--------------------------------------------------------------------------
\* Eve _ Corp_ eve@x.com_
EveClaimed == <<"E", "v", "e", " ", "_", " ", "C", "o", "r", "p", "_", " ", "e", "v", "e", "@", "x", ".", "c", "o", "m", "_">>

\* Eve _ Corp _eve@x.com_
EveParsedFolder == <<"E", "v", "e", " ", "_", " ", "C", "o", "r", "p", " ", "_", "e", "v", "e", "@", "x", ".", "c", "o", "m", "_">>

\* _Eve _ Corp_ _eve@x.com_
EveRawFolder == <<"_", "E", "v", "e", " ", "_", " ", "C", "o", "r", "p", "_", " ", "_", "e", "v", "e", "@", "x", ".", "c", "o", "m", "_">>

\* the folder of the current sender exists and is the sender with each of the
\* nine characters replaced by "_" and every other character unchanged
FolderOfSender ==
    /\ sender_name \in dest_dirs
    /\ Len(sender_name) = Len(sender)
    /\ \A i \in 1..Len(sender) :
          IF sender[i] \in SpecChars THEN sender_name[i] = "_"
          ELSE sender_name[i] = sender[i]

\* C7 as claimed: the folder made for a sender is the From string with each of
\* < > : " / \ | ? * replaced by "_", and From: "Eve / Corp" <eve@x.com> gives
\* the folder Eve _ Corp_ eve@x.com_.
C7_EveExample ==
    sender # None =>
        /\ FolderOfSender
        /\ sender \in {EveRaw, EveParsed} => sender_name = EveClaimed

\* C7, amended: the folder made for a sender is the From string with each of
\* < > : " / \ | ? * replaced by "_" and every other character unchanged; the
\* From value Eve / Corp <eve@x.com>, which the parser returns for the header
\* From: "Eve / Corp" <eve@x.com>, gives the folder Eve _ Corp _eve@x.com_, and
\* the header text itself would give _Eve _ Corp_ _eve@x.com_.
C7_Folder ==
    sender # None =>
        /\ FolderOfSender
        /\ sender = EveParsed => sender_name = EveParsedFolder
        /\ sender = EveRaw => sender_name = EveRawFolder

\* a completed run on the example's message
C7_Witness ==
    /\ pc = "done"
    /\ sender = EveParsed
    /\ EveParsedFolder \in dest_dirs

--------------------------------------------------------------------------
\* No Subject_UnknownDate.eml
BobFilename == <<"N", "o", " ", "S", "u", "b", "j", "e", "c", "t", "_", "U", "n", "k", "n", "o", "w", "n", "D", "a", "t", "e", ".", "e", "m", "l">>

\* C8: a message that matches is copied under <sanitized subject>_<date>.eml with
\* "No Subject" for an absent Subject and "UnknownDate" for a Date that is absent
\* or does not parse (YYYY-MM-DD_HH-MM-SS otherwise); no header makes the run
\* fail, and a message from bob@x.com with neither header ends up at
\* bob@x.com/No Subject_UnknownDate.eml.
C8_Fallbacks ==
    /\ \A i \in 1..Len(copies) :
          copies[i].path[2] = ExpectedFilename(src[copies[i].filename].content)
    /\ pc = "failed" => \E n \in DOMAIN src : EndsWith(n, DotEml) /\ src[n].kind # "file"
    /\ pc = "done" =>
          \A n \in Messages :
              (src[n].content.from = Bob /\ src[n].content.subject = None
                  /\ src[n].content.date = None) =>
                  /\ <<Bob, BobFilename>> \in DOMAIN dest_files
                  /\ dest_files[<<Bob, BobFilename>>] = src[n].content

\* a completed run on bob's message without Subject and Date
C8_Witness ==
    /\ pc = "done"
    /\ \E n \in Messages : src[n].content = Msg(Bob, None, None, 1)
    /\ <<Bob, BobFilename>> \in DOMAIN dest_files

--------------------------------------------------------------------------
\* two message files with the same sender, subject and date
SameHeaders(n1, n2) ==
    /\ n1 # n2
    /\ src[n1].content.from \notin {None, <<>>}
    /\ src[n1].content.from = src[n2].content.from
    /\ src[n1].content.subject = src[n2].content.subject
    /\ src[n1].content.date = src[n2].content.date

\* the copies of the messages that have the sender, subject and date of n
CopiesLike(n) ==
    {i \in 1..Len(copies) :
        /\ src[copies[i].filename].content.from = src[n].content.from
        /\ src[copies[i].filename].content.subject = src[n].content.subject
        /\ src[copies[i].filename].content.date = src[n].content.date}

\* C9 as claimed: messages with the same From, Subject and Date are copied to
\* one path, and after the run the file there holds the content of the one of
\* them that was copied later than the others.
C9_LaterOfTheTwo ==
    pc = "done" =>
        \A n1 \in Messages : \A n2 \in Messages :
            SameHeaders(n1, n2) =>
                /\ Cardinality(CopiesOf(n1)) = 1
                /\ Cardinality(CopiesOf(n2)) = 1
                /\ \A i \in CopiesOf(n1) : \A j \in CopiesOf(n2) :
                      /\ copies[i].path = copies[j].path
                      /\ copies[i].path \in DOMAIN dest_files
                      /\ dest_files[copies[i].path] =
                            src[copies[Last(CopiesLike(n1))].filename].content

\* C9, amended: two messages with the same From, Subject and Date are copied to
\* one path, each copy silently overwriting the file there, and after the run the
\* one file at that path holds the content of the message copied there last: the
\* later of the two, unless another message that resolves to the same path was
\* copied after both.
C9_Collision ==
    pc = "done" =>
        \A n1 \in Messages : \A n2 \in Messages :
            SameHeaders(n1, n2) =>
                /\ Cardinality(CopiesOf(n1)) = 1
                /\ Cardinality(CopiesOf(n2)) = 1
                /\ \A i \in CopiesOf(n1) : \A j \in CopiesOf(n2) :
                      LET p == copies[i].path
                          k == Last(CopiesTo(p))
                      IN  /\ copies[j].path = p
                          /\ p \in DOMAIN dest_files
                          /\ dest_files[p] = src[copies[k].filename].content
                          /\ k \in {i, j} =>
                                dest_files[p] = src[IF i > j THEN n1 ELSE n2].content

\* a completed run in which a third message was copied over the two
C9_Witness ==
    /\ pc = "done"
    /\ \E n1 \in Messages : \E n2 \in Messages :
          /\ SameHeaders(n1, n2)
          /\ \E i \in CopiesOf(n1) :
                copies[Last(CopiesTo(copies[i].path))].filename \notin {n1, n2}

--------------------------------------------------------------------------
\* C10: no step changes the source directory; every copy goes to the path
\* <sanitized sender>/<composed name> of a discovered sender and a message of
\* that sender; a file at a path no copy went to is the file that was there before
\* the run, every folder and file that was there is still there, and a file at a
\* path a copy went to holds the bytes of the source file copied there.
C10_Frame ==
    /\ src = src0
    /\ dest0_dirs \subseteq dest_dirs
    /\ DOMAIN dest0 \subseteq DOMAIN dest_files
    /\ \A i \in 1..Len(copies) :
          /\ copies[i].filename \in Messages
          /\ src[copies[i].filename].content.from \in senders
          /\ copies[i].path = ExpectedPath(src[copies[i].filename].content)
    /\ \A p \in DOMAIN dest_files :
          IF CopiesTo(p) # {}
          THEN dest_files[p] = src[copies[Last(CopiesTo(p))].filename].content
          ELSE p \in DOMAIN dest0 /\ dest_files[p] = dest0[p]

\* a completed run into a folder that held a file it overwrote and a file it left
C10_Witness ==
    /\ pc = "done"
    /\ \E p \in DOMAIN dest0 : CopiesTo(p) = {} /\ dest_files[p] = dest0[p]
    /\ \E p \in DOMAIN dest0 : CopiesTo(p) # {} /\ dest_files[p] # dest0[p]

====
